---- MODULE Spec2Model ----
(***************************************************************************)
(* The Lumi chat agent (day41-45_starter-code/app): the four-node          *)
(* LangGraph pipeline router -> (rag | tool | -) -> response, its          *)
(* non-streaming entry point chat() and its SSE entry point                *)
(* chat_stream()/stream_with_status(), and the process-wide SESSION_STORE. *)
(*                                                                         *)
(* Conventions.  A Python str is a sequence of one-character strings (a    *)
(* fixed text such as a status label is a one-element sequence holding the *)
(* whole text).  An Optional value is None == <<>> or Some(x) == <<x>>.    *)
(* A dict is a function from its keys.  Korean literals of the source are  *)
(* written in English.                                                     *)
(***************************************************************************)
EXTENDS Integers, Sequences, FiniteSets, TLC

\* ---------------------------------------------------------------- bounds
\* Requests handled in one behaviour (each is one turn, numbered in order).
MaxTurns == 2
\* Chunks the generation call of one response streams.
MaxChunks == 2

Turns == 1..MaxTurns

\* ------------------------------------------------------- Optional values
None == <<>>
Some(x) == <<x>>
IsNone(o) == o = <<>>
Val(o) == o[1]

\* ------------------------------------------------------------- text
RECURSIVE Concat(_)
\* "".join(parts): the concatenation of a sequence of strings.
Concat(parts) ==
    IF parts = <<>> THEN <<>> ELSE Head(parts) \o Concat(Tail(parts))

\* Python truthiness of a str / list / Optional[str].
Truthy(s) == s # <<>>

\* ------------------------------------------------------------- messages
\* langchain_core messages.  `turn` is the identity of the object: the
\* request that constructed it.
HumanMessage(content, t) == [role |-> "human", content |-> content, turn |-> t]
AIMessage(content, t) == [role |-> "ai", content |-> content, turn |-> t]

\* ------------------------------------------------------------ requests
Sessions == {"s1", "s2"}
\* ChatRequest: message (1..2000 chars), session_id (1..100 chars), user_id.
Requests ==
    { [message |-> <<"q">>, session_id |-> "s1", user_id |-> Some("fan")],
      [message |-> <<"q">>, session_id |-> "s2", user_id |-> None] }

\* The k-th chunk a generation call streams is empty or the k-th letter, so
\* that the order of the chunks shows in their concatenation.
Letters == <<"a", "b", "c", "d">>
ChunkChoices(k) == { <<>>, <<Letters[k]>> }
AllChunks == UNION { ChunkChoices(k) : k \in 1..MaxChunks }

\* str(e) of the faults the environment raises.
FaultText == <<"boom">>

\* ------------------------------------------------- router_node: tool names
GET_SCHEDULE == <<"g", "e", "t", "_", "s", "c", "h", "e", "d", "u", "l", "e">>
SEND_FAN_LETTER == <<"s", "e", "n", "d", "_", "f", "a", "n", "_", "l", "e", "t", "t", "e", "r">>
RECOMMEND_SONG == <<"r", "e", "c", "o", "m", "m", "e", "n", "d", "_", "s", "o", "n", "g">>
GET_WEATHER == <<"g", "e", "t", "_", "w", "e", "a", "t", "h", "e", "r">>
\* A name outside the whitelist.
BOGUS == <<"b", "o", "g", "u", "s">>

\* A classifier answer that lists names, with quotes and padding:
\* " 'get_schedule', recommend_song ".
NOISY ==
    <<" ", "'">> \o GET_SCHEDULE \o <<"'", ",", " ">> \o RECOMMEND_SONG \o <<" ">>

\* valid_tools of router_node; also the cases of ToolExecutor.execute.
valid_tools == <<GET_SCHEDULE, SEND_FAN_LETTER, RECOMMEND_SONG, GET_WEATHER>>
InValidTools(name) == \E i \in 1..Len(valid_tools) : valid_tools[i] = name

\* len(tool_name) > 50 discards the name.
MaxToolNameLen == 50

\* str.strip() with no argument strips the characters for which
\* str.isspace() holds: the ASCII ones and the Unicode ones, written here
\* by their code points.
WHITESPACE ==
    {" ", "\t", "\n", "\r", "\f", "U+000B", "U+001C", "U+001D", "U+001E",
     "U+001F", "U+0085", "U+00A0", "U+1680", "U+2000", "U+2001", "U+2002",
     "U+2003", "U+2004", "U+2005", "U+2006", "U+2007", "U+2008", "U+2009",
     "U+200A", "U+2028", "U+2029", "U+202F", "U+205F", "U+3000"}
\* quote_chars: apostrophe, double quote, backtick (U+0060, written
\* BACKTICK), three more apostrophes, two more double quotes and the four
\* CJK corner brackets (U+300C..U+300F, written LCB, RCB, LWCB, RWCB).
quote_chars ==
    <<"'", "\"", "BACKTICK", "'", "'", "'", "\"", "\"",
      "LCB", "RCB", "LWCB", "RWCB">>
CharsOf(seq) == { seq[i] : i \in 1..Len(seq) }

RECURSIVE lstrip(_, _)
lstrip(s, chars) ==
    IF s # <<>> /\ Head(s) \in chars THEN lstrip(Tail(s), chars) ELSE s
RECURSIVE rstrip(_, _)
rstrip(s, chars) ==
    IF s # <<>> /\ s[Len(s)] \in chars
    THEN rstrip(SubSeq(s, 1, Len(s) - 1), chars)
    ELSE s
\* s.strip() / s.strip(chars)
strip(s, chars) == rstrip(lstrip(s, chars), chars)
\* s.replace(ch, "")
remove(s, ch) == SelectSeq(s, LAMBDA c : c # ch)
RECURSIVE remove_each(_, _)
\* for char in chars: s = s.replace(char, "")
remove_each(s, chars) ==
    IF chars = <<>> THEN s ELSE remove_each(remove(s, Head(chars)), Tail(chars))
contains(s, ch) == \E i \in 1..Len(s) : s[i] = ch
RECURSIVE split_first(_, _)
\* s.split(sep)[0]
split_first(s, sep) ==
    IF s = <<>> \/ Head(s) = sep THEN <<>>
    ELSE <<Head(s)>> \o split_first(Tail(s), sep)

\* Lines 84-88: trim, strip enclosing quotes, drop every remaining quote.
clean_quotes(s) ==
    remove_each(strip(strip(s, WHITESPACE), CharsOf(quote_chars)), quote_chars)
\* cut_comma taking split(",")[-1], the text after the last comma.
cut_comma_last(s) ==
    IF contains(s, ",")
    THEN LET last == CHOOSE i \in 1..Len(s) :
                        s[i] = "," /\ \A j \in (i + 1)..Len(s) : s[j] # ","
         IN  strip(SubSeq(s, last + 1, Len(s)), WHITESPACE)
    ELSE s
\* Lines 91-92: keep the text before the first comma.
cut_comma(s) ==
    IF contains(s, ",") THEN strip(split_first(s, ","), WHITESPACE) ELSE s
\* Lines 94-95: keep the text before the first question mark.
cut_question(s) ==
    IF contains(s, "?") THEN strip(split_first(s, "?"), WHITESPACE) ELSE s

\* sanitize_tool_name with the length test after the trim instead of on
\* the raw string.
sanitize_tool_name_trim_first(raw) ==
    IF IsNone(raw) \/ ~Truthy(Val(raw)) THEN raw
    ELSE IF Len(strip(Val(raw), WHITESPACE)) > MaxToolNameLen THEN None
    ELSE Some(cut_question(cut_comma(clean_quotes(Val(raw)))))
\* Lines 76-95: the local tool_name after the cleaning steps (an Optional str).
sanitize_tool_name(raw) ==
    IF IsNone(raw) \/ ~Truthy(Val(raw)) THEN raw
    ELSE IF Len(Val(raw)) > MaxToolNameLen THEN None
    ELSE Some(cut_question(cut_comma(clean_quotes(Val(raw)))))

\* Lines 105-114: the locals (result_intent, tool_name) after the whitelist
\* check.  `result` is the RouterOutput the classifier returned.
router_locals(result) ==
    LET tool_name == sanitize_tool_name(result.tool_name)
        falsy == IsNone(tool_name) \/ ~Truthy(Val(tool_name))
    IN  IF result.intent # "tool"
        THEN [result_intent |-> result.intent, tool_name |-> tool_name]
        ELSE IF falsy
        THEN [result_intent |-> "chat", tool_name |-> tool_name]
        ELSE IF ~InValidTools(Val(tool_name))
        THEN [result_intent |-> "chat", tool_name |-> None]
        ELSE [result_intent |-> "tool", tool_name |-> tool_name]

\* What the classifier call (structured_llm.ainvoke) can do: raise, or
\* return a RouterOutput.  An answer that cannot be read as a RouterOutput
\* raises too, in the parser or at the first read of result (line 76),
\* inside the same try: ClassifierFault stands for both.
ArgsNone == None
ArgsSchedule == Some([event_type |-> <<"all">>])
RouterOutput(intent, tool_name, tool_args) ==
    [fault |-> FALSE, intent |-> intent, tool_name |-> tool_name,
     tool_args |-> tool_args]
ClassifierFault == [fault |-> TRUE]
ClassifierResults ==
    { ClassifierFault,
      RouterOutput("chat", None, ArgsNone),
      RouterOutput("rag", None, ArgsNone),
      RouterOutput("tool", Some(GET_SCHEDULE), ArgsSchedule),
      RouterOutput("tool", Some(BOGUS), ArgsNone),
      RouterOutput("tool", Some(NOISY), ArgsNone),
      RouterOutput("tool", None, ArgsNone),
      RouterOutput("chat", Some(GET_SCHEDULE), ArgsSchedule) }

\* router_node whose except branch answers intent "tool".
router_node_except_tool(result) ==
    IF result.fault
    THEN [intent |-> Some("tool"), tool_name |-> None, tool_args |-> None]
    ELSE [intent |-> Some(result.intent), tool_name |-> result.tool_name,
          tool_args |-> result.tool_args]

\* route_by_intent with the rag and tool branches exchanged.
route_by_intent_swapped(state) ==
    IF state.intent = Some("rag") THEN "tool"
    ELSE IF state.intent = Some("tool") THEN "rag"
    ELSE "response"

\* router_node: the state update it returns.  Lines 121-125 return the
\* fields of `result` itself, not the locals of router_locals; the except
\* branch (lines 126-129) returns the chat default.
router_node(result) ==
    IF result.fault
    THEN [intent |-> Some("chat"), tool_name |-> None, tool_args |-> None]
    ELSE [intent |-> Some(result.intent), tool_name |-> result.tool_name,
          tool_args |-> result.tool_args]

\* route_by_intent: the node that follows the router.
route_by_intent(state) ==
    IF state.intent = Some("rag") THEN "rag"
    ELSE IF state.intent = Some("tool") THEN "tool"
    ELSE "response"

\* ------------------------------------------------------------- rag_node
\* The two fixed passages rag_node substitutes when retrieval raises.
FALLBACK_DOCS ==
    << <<"Lumi is an alien princess from planet Prism">>,
       <<"Lumi's fandom is Luminous">> >>
DOC == <<"doc">>
\* What get_rag_repository().search_similar(...) can do: raise, or return
\* a list of documents (each with its "content").
RetrievalFault == [fault |-> TRUE]
Retrieved(docs) == [fault |-> FALSE, docs |-> docs]
\* What the backend of RAGRepository.search_similar (the embedding call
\* and the match_documents rpc) can do: raise, or return rows.
BackendFault == [fault |-> TRUE]
Rows(data) == [fault |-> FALSE, data |-> data]
BackendResults == { BackendFault, Rows(<<>>), Rows(<< [content |-> DOC] >>) }
\* RAGRepository.search_similar: the rows, or [] when the backend raised.
search_similar(backend) == IF backend.fault THEN <<>> ELSE backend.data
\* What rag_node sees: get_rag_repository() raises, or search_similar
\* returns.
RetrievalResults ==
    { RetrievalFault } \cup { Retrieved(search_similar(b)) : b \in BackendResults }

\* rag_node whose except branch leaves the list empty.
rag_node_fault_empty(outcome) ==
    IF outcome.fault
    THEN [retrieved_docs |-> <<>>]
    ELSE [retrieved_docs |->
             [i \in 1..Len(outcome.docs) |-> outcome.docs[i].content]]

\* rag_node: the state update it returns.
rag_node(outcome) ==
    IF outcome.fault
    THEN [retrieved_docs |-> FALLBACK_DOCS]
    ELSE [retrieved_docs |->
             [i \in 1..Len(outcome.docs) |-> outcome.docs[i].content]]

\* ------------------------------------------- ToolExecutor and tool_node
\* LUMI_SONGS["happy"], the only list of LUMI_SONGS.
LUMI_SONGS ==
    << [title |-> <<"Shine Bright">>, album |-> <<"First Light">>],
       [title |-> <<"Happy Day">>, album |-> <<"Luminous">>],
       [title |-> <<"Dancing Star">>, album |-> <<"First Light">>] >>
\* What the schedule collaborator (ScheduleRepository, not part of the
\* sources) can do when _get_schedule calls it.
ScheduleEnvs == {"fault", "empty", "some"}
\* What a tool call meets: the schedule collaborator and the index
\* random.choice picks in _recommend_song.
ToolEnvs == [schedule : ScheduleEnvs, choice : 1..Len(LUMI_SONGS)]
SCHEDULE == <<"show">>
MOCK_WEATHER == <<"Seoul 5C clear">>
NameText(name) == IF IsNone(name) THEN <<"None">> ELSE Val(name)
DictGet(d, key, default) == IF key \in DOMAIN d THEN d[key] ELSE default

\* ToolExecutor._get_schedule
get_schedule(args, env) ==
    IF env = "empty"
    THEN [success |-> TRUE,
          data |-> [schedules |-> <<>>, message |-> <<"no schedule">>]]
    ELSE [success |-> TRUE, data |-> [schedules |-> <<SCHEDULE>>, count |-> 1]]

\* ToolExecutor.send_fan_letter, the method the class defines: it stores
\* the letter through fan_letter_repo.create, which returns the new id.
LETTER_ID == <<"letter-1">>
send_fan_letter(args, session_id, user_id, letter_id) ==
    [success |-> TRUE,
     data |-> [letter_id |-> letter_id, message |-> <<"letter delivered">>]]

\* execute whose default case returns no success field.
execute_default_bare(tool_name, tool_args, session_id, user_id, env) ==
    IF tool_name = Some(GET_SCHEDULE)
    THEN IF env.schedule = "fault"
         THEN [success |-> FALSE, error |-> FaultText]
         ELSE get_schedule(tool_args, env.schedule)
    ELSE IF tool_name = Some(SEND_FAN_LETTER)
    THEN [success |-> FALSE,
          error |-> <<"'ToolExecutor' object has no attribute '_send_fan_letter'">>]
    ELSE IF tool_name = Some(RECOMMEND_SONG)
    THEN [success |-> TRUE,
          data |-> [song |-> LUMI_SONGS[env.choice],
                    mood |-> DictGet(tool_args, "mood", <<"happy">>)],
          mock |-> TRUE]
    ELSE IF tool_name = Some(GET_WEATHER)
    THEN [success |-> TRUE, data |-> MOCK_WEATHER, mock |-> TRUE]
    ELSE [error |-> <<"unknown tool: ">> \o NameText(tool_name)]

\* ToolExecutor.execute: a closed match over the tool names inside a
\* try/except that turns every exception into a failure result.  The
\* send_fan_letter case calls self._send_fan_letter, which the class does
\* not define (its method is send_fan_letter): an AttributeError.
execute(tool_name, tool_args, session_id, user_id, env) ==
    IF tool_name = Some(GET_SCHEDULE)
    THEN IF env.schedule = "fault"
         THEN [success |-> FALSE, error |-> FaultText]
         ELSE get_schedule(tool_args, env.schedule)
    ELSE IF tool_name = Some(SEND_FAN_LETTER)
    THEN [success |-> FALSE,
          error |-> <<"'ToolExecutor' object has no attribute '_send_fan_letter'">>]
    ELSE IF tool_name = Some(RECOMMEND_SONG)
    THEN [success |-> TRUE,
          data |-> [song |-> LUMI_SONGS[env.choice],
                    mood |-> DictGet(tool_args, "mood", <<"happy">>)],
          mock |-> TRUE]
    ELSE IF tool_name = Some(GET_WEATHER)
    THEN [success |-> TRUE, data |-> MOCK_WEATHER, mock |-> TRUE]
    ELSE [success |-> FALSE,
          error |-> <<"unknown tool: ">> \o NameText(tool_name)]

\* Whether the tool operation raised inside execute (its except branch
\* built the result).
execute_raises(tool_name, env) ==
    \/ tool_name = Some(GET_SCHEDULE) /\ env.schedule = "fault"
    \/ tool_name = Some(SEND_FAN_LETTER)

\* tool_node that also resets tool_args in its update.
tool_node_clears_args(state, env) ==
    LET tool_args == IF IsNone(state.tool_args) THEN <<>> ELSE Val(state.tool_args)
    IN  [tool_result |->
            Some(execute(state.tool_name, tool_args, state.session_id,
                         state.user_id, env)),
         tool_args |-> None]

\* tool_node: the state update it returns (tool_result only).
tool_node(state, env) ==
    LET tool_args == IF IsNone(state.tool_args) THEN <<>> ELSE Val(state.tool_args)
    IN  [tool_result |->
            Some(execute(state.tool_name, tool_args, state.session_id,
                         state.user_id, env))]

\* -------------------------------------------------------- response_node
\* The apology response_node returns when llm.ainvoke raises e.
Apology(e) ==
    <<"Sorry, something went wrong! Could you say that again? (">> \o e \o <<")">>

\* The request whose user message is state["messages"][-1].
CurrentTurn(state) == state.messages[Len(state.messages)].turn

RECURSIVE join(_, _)
\* sep.join(parts)
join(sep, parts) ==
    IF parts = <<>> THEN <<>>
    ELSE IF Len(parts) = 1 THEN parts[1]
    ELSE parts[1] \o sep \o join(sep, Tail(parts))

\* Lines 203-224: the system prompt, as the template and what is put into
\* it (the templates are fixed texts).
system_prompt(state) ==
    IF state.intent = Some("rag")
    THEN [template |-> "RAG_RESPONCE_PROMPT",
          context |-> join(<<"\n">>, state.retrieved_docs)]
    ELSE IF state.intent = Some("tool")
    THEN [template |-> "RESPONSE_PROMPT", tool_name |-> state.tool_name,
          tool_result |-> state.tool_result]
    ELSE [template |-> "RESPONSE_PROMPT"]

\* history_messages that takes messages[-6:], the current message included.
history_messages_with_last(messages) ==
    IF Len(messages) > 1
    THEN LET from == IF Len(messages) > 6 THEN Len(messages) - 6 + 1 ELSE 1
         IN  SubSeq(messages, from, Len(messages))
    ELSE <<>>

\* Line 227: messages[:-1][-6:], the turns before the current one.
HistoryWindow == 6
history_messages(messages) ==
    IF Len(messages) > 1
    THEN LET before == SubSeq(messages, 1, Len(messages) - 1)
             from == IF Len(before) > HistoryWindow
                     THEN Len(before) - HistoryWindow + 1 ELSE 1
         IN  SubSeq(before, from, Len(before))
    ELSE <<>>

\* Lines 229-240: what response_node passes to llm.ainvoke.
llm_messages(state) ==
    LET history == history_messages(state.messages)
    IN  [system_prompt |-> system_prompt(state),
         history |-> [i \in 1..Len(history) |->
                         [role |-> history[i].role,
                          content |-> history[i].content]],
         user_input |-> state.messages[Len(state.messages)].content]

\* response_node: the state update it returns.  `chunks` is what the
\* generation call streamed; its concatenation is response.content.
response_node(state, chunks, fault) ==
    IF fault
    THEN [messages |-> << AIMessage(Apology(FaultText), CurrentTurn(state)) >>]
    ELSE [messages |-> << AIMessage(Concat(chunks), CurrentTurn(state)) >>]

\* ------------------------------------------------- StreamEvent.to_sse
StreamEvent(type, content, tool_used, error) ==
    [type |-> type, content |-> content, tool_used |-> tool_used,
     error |-> error]
\* to_sse: the JSON object keeps the type and every field that is not None.
to_sse(ev) ==
    LET kept == { f \in DOMAIN ev : f = "type" \/ ~IsNone(ev[f]) }
    IN  [f \in kept |-> IF f = "type" THEN ev.type ELSE Val(ev[f])]

\* ------------------------------------------------- stream_with_status
\* node_status: node name -> the label shown to the user.
\* node_status without the entry of the router.
StatusNodes_no_router == {"rag", "tool", "response"}
StatusNodes == {"router", "rag", "tool", "response"}
\* node_status with the router's label for the rag node too.
node_status_rag_as_router(node) ==
    CASE node = "router" -> <<"Lumi is thinking...">>
      [] node = "rag" -> <<"Lumi is thinking...">>
      [] node = "tool" -> <<"Running a tool...">>
      [] node = "response" -> <<"Writing the answer...">>
node_status(node) ==
    CASE node = "router" -> <<"Lumi is thinking...">>
      [] node = "rag" -> <<"Searching information...">>
      [] node = "tool" -> <<"Running a tool...">>
      [] node = "response" -> <<"Writing the answer...">>

\* The 4-tuples stream_with_status yields.
Yield(status, token, final, tool_used) ==
    [status |-> status, token |-> token, final |-> final,
     tool_used |-> tool_used]

\* Lines 118-120: the locals before the loop.
InitLocals ==
    [final_response |-> <<>>, final_tool_name |-> None, current_node |-> None]

\* Lines 134-145: the loop body for an ("updates", {node_name: node_output})
\* event.  Gives the locals afterwards and the tuples yielded.
on_updates(loc, node_name, node_output) ==
    LET entered == loc.current_node # Some(node_name) /\ node_name \in StatusNodes
        loc1 == IF entered THEN [loc EXCEPT !.current_node = Some(node_name)]
                ELSE loc
        loc2 == IF node_name = "tool" /\ DOMAIN node_output # {}
                THEN [loc1 EXCEPT !.final_tool_name =
                         DictGet(node_output, "tool_name", None)]
                ELSE loc1
    IN  [loc |-> loc2,
         yielded |-> IF entered
                     THEN << Yield(Some(node_status(node_name)), None, None, None) >>
                     ELSE <<>>]

\* on_messages with the token put in front of the text so far.
on_messages_prepend(loc, msg, langgraph_node) ==
    IF langgraph_node # "response" THEN [loc |-> loc, yielded |-> <<>>]
    ELSE IF msg.is_chunk /\ Truthy(msg.content)
    THEN [loc |-> [loc EXCEPT !.final_response = msg.content \o @],
          yielded |-> << Yield(None, Some(msg.content), None, None) >>]
    ELSE [loc |-> loc, yielded |-> <<>>]

\* on_messages without the test of the node that generated the chunk.
on_messages_any_node(loc, msg, langgraph_node) ==
    IF msg.is_chunk /\ Truthy(msg.content)
    THEN [loc |-> [loc EXCEPT !.final_response = @ \o msg.content],
          yielded |-> << Yield(None, Some(msg.content), None, None) >>]
    ELSE [loc |-> loc, yielded |-> <<>>]

\* Lines 148-163: the loop body for a ("messages", (msg, meta)) event.
\* msg.is_chunk tells an AIMessageChunk from any other message.
on_messages(loc, msg, langgraph_node) ==
    IF langgraph_node # "response" THEN [loc |-> loc, yielded |-> <<>>]
    ELSE IF msg.is_chunk /\ Truthy(msg.content)
    THEN [loc |-> [loc EXCEPT !.final_response = @ \o msg.content],
          yielded |-> << Yield(None, Some(msg.content), None, None) >>]
    ELSE [loc |-> loc, yielded |-> <<>>]

\* Lines 166-172: the session entry after the turn's save.
Entry(store, session_id) ==
    IF session_id \in DOMAIN store THEN store[session_id] ELSE <<>>
\* save_session that replaces the entry instead of appending to it.
save_session_overwrite(store, session_id, new_message, final_response) ==
    IF Truthy(final_response)
    THEN [s \in DOMAIN store \cup {session_id} |->
            IF s = session_id
            THEN << new_message, AIMessage(final_response, new_message.turn) >>
            ELSE store[s]]
    ELSE store
\* save_session without the test of final_response.
save_session_always(store, session_id, new_message, final_response) ==
    [s \in DOMAIN store \cup {session_id} |->
        IF s = session_id
        THEN Entry(store, s) \o
             << new_message, AIMessage(final_response, new_message.turn) >>
        ELSE store[s]]
\* save_session that appends the pair to every entry of the store.
save_session_every_key(store, session_id, new_message, final_response) ==
    IF Truthy(final_response)
    THEN [s \in DOMAIN store \cup {session_id} |->
            Entry(store, s) \o
            << new_message, AIMessage(final_response, new_message.turn) >>]
    ELSE store
\* save_session that puts the pair in front of the entry.
save_session_prepend(store, session_id, new_message, final_response) ==
    IF Truthy(final_response)
    THEN [s \in DOMAIN store \cup {session_id} |->
            IF s = session_id
            THEN << new_message, AIMessage(final_response, new_message.turn) >>
                 \o Entry(store, s)
            ELSE store[s]]
    ELSE store
\* save_session that appends the assistant message before the user message.
save_session_ai_first(store, session_id, new_message, final_response) ==
    IF Truthy(final_response)
    THEN [s \in DOMAIN store \cup {session_id} |->
            IF s = session_id
            THEN Entry(store, s) \o
                 << AIMessage(final_response, new_message.turn), new_message >>
            ELSE store[s]]
    ELSE store
save_session(store, session_id, new_message, final_response) ==
    IF Truthy(final_response)
    THEN [s \in DOMAIN store \cup {session_id} |->
            IF s = session_id
            THEN Entry(store, s) \o
                 << new_message, AIMessage(final_response, new_message.turn) >>
            ELSE store[s]]
    ELSE store

\* Line 174: the last tuple.
final_yield(loc) ==
    Yield(None, None, Some(loc.final_response), loc.final_tool_name)

\* ------------------------------------------------ chat_stream.generate
OptTruthy(o) == ~IsNone(o) /\ Truthy(Val(o))
\* Lines 192-202: the SSE events generate() yields for one tuple.
generate_events(y) ==
    (IF OptTruthy(y.status)
     THEN << to_sse(StreamEvent("thinking", y.status, None, None)) >> ELSE <<>>)
    \o
    (IF OptTruthy(y.token)
     THEN << to_sse(StreamEvent("token", y.token, None, None)) >> ELSE <<>>)
    \o
    (IF OptTruthy(y.final)
     THEN << to_sse(StreamEvent("response", y.final, y.tool_used, None)) >>
     ELSE <<>>)
RECURSIVE generate_all(_)
generate_all(ys) ==
    IF ys = <<>> THEN <<>> ELSE generate_events(Head(ys)) \o generate_all(Tail(ys))
\* generate() without the done event after the loop.
generate_done_missing == <<>>
\* Line 204: the event after the loop.
generate_done == << to_sse(StreamEvent("done", None, None, None)) >>
\* The except branch without its done event.
generate_except_no_done(e) ==
    << to_sse(StreamEvent("error", None, None, Some(e))) >>
\* Lines 207-210: the events of the except branch.
generate_except(e) ==
    << to_sse(StreamEvent("error", None, None, Some(e))),
       to_sse(StreamEvent("done", None, None, None)) >>

\* ---------------------------------------------------------------- state
VARIABLES
    SESSION_STORE,  \* chat.py: session id -> list of messages (a dict)
    pc,             \* per request: where its handler is suspended
    mode,           \* per request: "stream" (chat_stream) or "invoke" (chat)
    req,            \* per request: the ChatRequest
    state,          \* per request: the LumiState of its graph run
    gen,            \* per request: the chunks streamed by the LLM call of
                    \*   the node that runs, each with its langgraph_node
    loc,            \* per request: locals of stream_with_status
    out,            \* per request: SSE events generate() has yielded
    resp,           \* per request: what chat() returned or raised
    cls,            \* per request: `result` of router_node, what the
                    \*   classifier call returned or that it raised
    ran,            \* per request: the graph nodes that completed, in
                    \*   order, each with whether its external call raised
    prompt          \* per request: the messages response_node passes to
                    \*   llm.ainvoke

vars ==
    <<SESSION_STORE, pc, mode, req, state, gen, loc, out, resp, cls, ran, prompt>>

NoRequest == [message |-> <<>>, session_id |-> "", user_id |-> None]
NoState ==
    [messages |-> <<>>, intent |-> None, retrieved_docs |-> <<>>,
     tool_name |-> None, tool_args |-> None, tool_result |-> None,
     session_id |-> "", user_id |-> None]

\* chat.py line 22 and the idle request handlers.
Init ==
    /\ SESSION_STORE = <<>>
    /\ pc = [t \in Turns |-> "idle"]
    /\ mode = [t \in Turns |-> "none"]
    /\ req = [t \in Turns |-> NoRequest]
    /\ state = [t \in Turns |-> NoState]
    /\ gen = [t \in Turns |-> <<>>]
    /\ loc = [t \in Turns |-> InitLocals]
    /\ out = [t \in Turns |-> <<>>]
    /\ resp = [t \in Turns |-> None]
    /\ cls = [t \in Turns |-> None]
    /\ ran = [t \in Turns |-> <<>>]
    /\ prompt = [t \in Turns |-> None]

\* Lines 40-49 and 105-114: the initial LumiState.
initial_state(messages, session_id, user_id) ==
    [messages |-> messages, intent |-> None, retrieved_docs |-> <<>>,
     tool_name |-> None, tool_args |-> None, tool_result |-> None,
     session_id |-> session_id, user_id |-> user_id]

\* Line 101: session_id or "default".
effective_session(session_id) ==
    IF session_id = "" THEN "default" ELSE session_id

\* LangGraph merges a node's update into the state: messages are appended
\* (add_messages), every other key is overwritten.
merge(st, update) ==
    [k \in DOMAIN st |->
        IF k \in DOMAIN update
        THEN IF k = "messages" THEN st[k] \o update[k] ELSE update[k]
        ELSE st[k]]

\* The tuples of one graph event, relayed by generate() to the consumer.
Relay(t, handled) ==
    /\ loc' = [loc EXCEPT ![t] = handled.loc]
    /\ out' = [out EXCEPT ![t] = @ \o generate_all(handled.yielded)]

\* chat_stream -> stream_with_status, lines 99-130: up to the first await
\* of graph.astream.
StartStream(t, r) ==
    /\ pc[t] = "idle"
    /\ LET session_id == effective_session(r.session_id)
           history == Entry(SESSION_STORE, session_id)
           new_message == HumanMessage(r.message, t)
       IN  state' = [state EXCEPT ![t] =
                initial_state(history \o <<new_message>>, session_id, r.user_id)]
    /\ pc' = [pc EXCEPT ![t] = "router"]
    /\ mode' = [mode EXCEPT ![t] = "stream"]
    /\ req' = [req EXCEPT ![t] = r]
    /\ loc' = [loc EXCEPT ![t] = InitLocals]
    /\ UNCHANGED <<SESSION_STORE, gen, out, resp, cls, ran, prompt>>

\* chat, lines 35-53: up to the first await of graph.ainvoke.
StartChat(t, r) ==
    /\ pc[t] = "idle"
    /\ state' = [state EXCEPT ![t] =
            initial_state(<<HumanMessage(r.message, t)>>, r.session_id, r.user_id)]
    /\ pc' = [pc EXCEPT ![t] = "router"]
    /\ mode' = [mode EXCEPT ![t] = "invoke"]
    /\ req' = [req EXCEPT ![t] = r]
    /\ UNCHANGED <<SESSION_STORE, gen, loc, out, resp, cls, ran, prompt>>

\* One node of the graph completes with `update`: the state is merged and,
\* in streaming mode, the ("updates", {node: update}) event runs the loop
\* body of stream_with_status.
NodeCompletes(t, node, update, messages_first, raised) ==
    /\ state' = [state EXCEPT ![t] = merge(@, update)]
    /\ ran' = [ran EXCEPT ![t] = Append(@, [node |-> node, raised |-> raised])]
    /\ IF mode[t] = "stream"
       THEN LET seen == IF messages_first
                        THEN on_messages(loc[t],
                                 [is_chunk |-> FALSE,
                                  content |-> update.messages[1].content],
                                 node)
                        ELSE [loc |-> loc[t], yielded |-> <<>>]
                upd == on_updates(seen.loc, node, update)
            IN  Relay(t, [loc |-> upd.loc, yielded |-> seen.yielded \o upd.yielded])
       ELSE UNCHANGED <<loc, out>>

\* A chunk an LLM call streams, with the node that made the call.
Chunk(node, content) == [node |-> node, content |-> content]
ChunkContents(chunks) == [i \in 1..Len(chunks) |-> chunks[i].content]

\* The classifier call of router_node streams one chunk; in streaming mode
\* it arrives as a ("messages", (AIMessageChunk, {langgraph_node:
\* "router"})) event.
RouterChunk(t, chunk) ==
    /\ pc[t] = "router"
    /\ Len(gen[t]) < MaxChunks
    /\ chunk \in ChunkChoices(Len(gen[t]) + 1)
    /\ gen' = [gen EXCEPT ![t] = Append(@, Chunk("router", chunk))]
    /\ IF mode[t] = "stream"
       THEN Relay(t, on_messages(loc[t],
                        [is_chunk |-> TRUE, content |-> chunk], "router"))
       ELSE UNCHANGED <<loc, out>>
    /\ UNCHANGED <<SESSION_STORE, pc, mode, req, state, resp, cls, ran, prompt>>

\* The router node: the classifier call returns or raises, router_node
\* returns its update, and the conditional edge picks the next node.
RouterStep(t, result) ==
    /\ pc[t] = "router"
    /\ NodeCompletes(t, "router", router_node(result), FALSE, result.fault)
    /\ cls' = [cls EXCEPT ![t] = Some(result)]
    /\ pc' = [pc EXCEPT ![t] = route_by_intent(state'[t])]
    /\ gen' = [gen EXCEPT ![t] = <<>>]
    /\ UNCHANGED <<SESSION_STORE, mode, req, resp, prompt>>

\* RagStep with the edge rag -> tool instead of rag -> response.
RagStep_then_tool(t, outcome) ==
    /\ pc[t] = "rag"
    /\ NodeCompletes(t, "rag", rag_node(outcome), FALSE, outcome.fault)
    /\ pc' = [pc EXCEPT ![t] = "tool"]
    /\ UNCHANGED <<SESSION_STORE, mode, req, gen, resp, cls, prompt>>

\* The rag node; edge rag -> response.
RagStep(t, outcome) ==
    /\ pc[t] = "rag"
    /\ NodeCompletes(t, "rag", rag_node(outcome), FALSE, outcome.fault)
    /\ pc' = [pc EXCEPT ![t] = "response"]
    /\ UNCHANGED <<SESSION_STORE, mode, req, gen, resp, cls, prompt>>

\* The tool node; edge tool -> response.
ToolStep(t, env) ==
    /\ pc[t] = "tool"
    /\ NodeCompletes(t, "tool", tool_node(state[t], env), FALSE,
                     execute_raises(state[t].tool_name, env))
    /\ pc' = [pc EXCEPT ![t] = "response"]
    /\ UNCHANGED <<SESSION_STORE, mode, req, gen, resp, cls, prompt>>

\* The generation call of response_node streams one chunk; in streaming
\* mode it arrives as a ("messages", (AIMessageChunk, {langgraph_node:
\* "response"})) event.
ResponseChunk(t, chunk) ==
    /\ pc[t] = "response"
    /\ Len(gen[t]) < MaxChunks
    /\ chunk \in ChunkChoices(Len(gen[t]) + 1)
    /\ gen' = [gen EXCEPT ![t] = Append(@, Chunk("response", chunk))]
    /\ IF mode[t] = "stream"
       THEN Relay(t, on_messages(loc[t],
                        [is_chunk |-> TRUE, content |-> chunk], "response"))
       ELSE UNCHANGED <<loc, out>>
    /\ prompt' = [prompt EXCEPT ![t] = Some(llm_messages(state[t]))]
    /\ UNCHANGED <<SESSION_STORE, pc, mode, req, state, resp, cls, ran>>

\* The generation call returns or raises and response_node completes: in
\* streaming mode its AIMessage arrives as a "messages" event (not a
\* chunk) and then its update as an "updates" event.  Edge response -> END.
ResponseStep(t, fault) ==
    /\ pc[t] = "response"
    /\ NodeCompletes(t, "response",
                     response_node(state[t], ChunkContents(gen[t]), fault), TRUE,
                     fault)
    /\ prompt' = [prompt EXCEPT ![t] = Some(llm_messages(state[t]))]
    /\ pc' = [pc EXCEPT ![t] = IF mode[t] = "stream" THEN "finish" ELSE "return"]
    /\ UNCHANGED <<SESSION_STORE, mode, req, gen, resp, cls>>

\* FinishStream that yields the last tuple without having saved the pair.
FinishStream_yield_unsaved(t) ==
    /\ pc[t] = "finish"
    /\ LET events == generate_events(final_yield(loc[t]))
       IN  IF events # <<>>
           THEN /\ out' = [out EXCEPT ![t] = @ \o events]
                /\ pc' = [pc EXCEPT ![t] = "final"]
           ELSE /\ out' = [out EXCEPT ![t] = @ \o generate_done]
                /\ pc' = [pc EXCEPT ![t] = "done"]
    /\ UNCHANGED <<SESSION_STORE, mode, req, state, gen, loc, resp, cls, ran, prompt>>

\* FinishStream that writes back the history read at the start of the
\* request with the pair appended, instead of appending to the entry.
FinishStream_from_snapshot(t) ==
    /\ pc[t] = "finish"
    /\ LET snapshot == SelectSeq(state[t].messages, LAMBDA m : m.turn # t)
           session_id == state[t].session_id
       IN  SESSION_STORE' =
              IF Truthy(loc[t].final_response)
              THEN [s \in DOMAIN SESSION_STORE \cup {session_id} |->
                      IF s = session_id
                      THEN snapshot \o
                           << HumanMessage(req[t].message, t),
                              AIMessage(loc[t].final_response, t) >>
                      ELSE SESSION_STORE[s]]
              ELSE SESSION_STORE
    /\ LET events == generate_events(final_yield(loc[t]))
       IN  IF events # <<>>
           THEN /\ out' = [out EXCEPT ![t] = @ \o events]
                /\ pc' = [pc EXCEPT ![t] = "final"]
           ELSE /\ out' = [out EXCEPT ![t] = @ \o generate_done]
                /\ pc' = [pc EXCEPT ![t] = "done"]
    /\ UNCHANGED <<mode, req, state, gen, loc, resp, cls, ran, prompt>>

\* stream_with_status lines 165-174 once graph.astream is exhausted, and
\* generate() lines 199-204 on the last tuple: the save, then the response
\* event if the final text is non-empty, else straight to done.
FinishStream(t) ==
    /\ pc[t] = "finish"
    /\ SESSION_STORE' =
          save_session(SESSION_STORE, state[t].session_id,
                       HumanMessage(req[t].message, t), loc[t].final_response)
    /\ LET events == generate_events(final_yield(loc[t]))
       IN  IF events # <<>>
           THEN /\ out' = [out EXCEPT ![t] = @ \o events]
                /\ pc' = [pc EXCEPT ![t] = "final"]
           ELSE /\ out' = [out EXCEPT ![t] = @ \o generate_done]
                /\ pc' = [pc EXCEPT ![t] = "done"]
    /\ UNCHANGED <<mode, req, state, gen, loc, resp, cls, ran, prompt>>

\* generate() line 204 after the response event was sent.
EmitDone(t) ==
    /\ pc[t] = "final"
    /\ out' = [out EXCEPT ![t] = @ \o generate_done]
    /\ pc' = [pc EXCEPT ![t] = "done"]
    /\ UNCHANGED <<SESSION_STORE, mode, req, state, gen, loc, resp, cls, ran, prompt>>

\* ChatResponse / HTTPException of chat().
ChatResponse(message, tool_used) ==
    [status |-> 200, message |-> message, tool_used |-> tool_used,
     cached |-> FALSE]
HTTPException == [status |-> 500]

\* chat lines 56-70 once graph.ainvoke returned.
ChatReturn(t) ==
    /\ pc[t] = "return"
    /\ LET messages == state[t].messages
       IN  resp' = [resp EXCEPT ![t] =
              IF Len(messages) < 2 THEN Some(HTTPException)
              ELSE Some(ChatResponse(messages[Len(messages)].content,
                                     state[t].tool_name))]
    /\ pc' = [pc EXCEPT ![t] = "done"]
    /\ UNCHANGED <<SESSION_STORE, mode, req, state, gen, loc, out, cls, ran, prompt>>

InGraph(t) == pc[t] \in {"router", "rag", "tool", "response"}

\* GraphFault whose except branch also catches the cancellation of the
\* response task (except BaseException).
GraphFault_catches_cancel(t) ==
    /\ InGraph(t) \/ pc[t] = "cancelled"
    /\ IF mode[t] = "stream"
       THEN /\ out' = [out EXCEPT ![t] = Append(@, Head(generate_except(FaultText)))]
            /\ pc' = [pc EXCEPT ![t] = "erred"]
            /\ UNCHANGED resp
       ELSE /\ resp' = [resp EXCEPT ![t] = Some(HTTPException)]
            /\ pc' = [pc EXCEPT ![t] = "failed"]
            /\ UNCHANGED out
    /\ UNCHANGED <<SESSION_STORE, mode, req, state, gen, loc, cls, ran, prompt>>

\* An exception leaves the graph run (a node's code outside its try, or the
\* framework).  generate() lines 207-209: the error event is yielded and
\* the generator is suspended there; chat() lines 66-70: the request fails.
GraphFault(t) ==
    /\ InGraph(t)
    /\ IF mode[t] = "stream"
       THEN /\ out' = [out EXCEPT ![t] = Append(@, Head(generate_except(FaultText)))]
            /\ pc' = [pc EXCEPT ![t] = "erred"]
            /\ UNCHANGED resp
       ELSE /\ resp' = [resp EXCEPT ![t] = Some(HTTPException)]
            /\ pc' = [pc EXCEPT ![t] = "failed"]
            /\ UNCHANGED out
    /\ UNCHANGED <<SESSION_STORE, mode, req, state, gen, loc, cls, ran, prompt>>

\* generate() line 210: resumed after the error event, it yields done.
ErrorDone(t) ==
    /\ pc[t] = "erred"
    /\ out' = [out EXCEPT ![t] = @ \o Tail(generate_except(FaultText))]
    /\ pc' = [pc EXCEPT ![t] = "failed"]
    /\ UNCHANGED <<SESSION_STORE, mode, req, state, gen, loc, resp, cls, ran, prompt>>

\* The consumer of a streaming response disconnects: the response task is
\* cancelled where it is suspended and the generators are closed.
Disconnect(t) ==
    /\ mode[t] = "stream"
    /\ InGraph(t) \/ pc[t] \in {"finish", "final", "erred"}
    /\ pc' = [pc EXCEPT ![t] = "cancelled"]
    /\ UNCHANGED <<SESSION_STORE, mode, req, state, gen, loc, out, resp, cls, ran, prompt>>

Ended(t) == pc[t] \in {"done", "failed", "cancelled"}

\* The request is over: its LumiState, locals and response are discarded.
Retire(t) ==
    /\ Ended(t)
    /\ pc' = [pc EXCEPT ![t] = "retired"]
    /\ mode' = [mode EXCEPT ![t] = "none"]
    /\ req' = [req EXCEPT ![t] = NoRequest]
    /\ state' = [state EXCEPT ![t] = NoState]
    /\ gen' = [gen EXCEPT ![t] = <<>>]
    /\ loc' = [loc EXCEPT ![t] = InitLocals]
    /\ out' = [out EXCEPT ![t] = <<>>]
    /\ resp' = [resp EXCEPT ![t] = None]
    /\ cls' = [cls EXCEPT ![t] = None]
    /\ ran' = [ran EXCEPT ![t] = <<>>]
    /\ prompt' = [prompt EXCEPT ![t] = None]
    /\ UNCHANGED SESSION_STORE

\* The server accepts a request whatever the others are doing: a handler
\* is a coroutine of one event loop, and any idle request may start while
\* others are between two of their steps.
Next ==
    \E t \in Turns :
        \/ \E r \in Requests : StartStream(t, r)
        \/ \E r \in Requests : StartChat(t, r)
        \/ \E chunk \in AllChunks : RouterChunk(t, chunk)
        \/ \E result \in ClassifierResults : RouterStep(t, result)
        \/ \E outcome \in RetrievalResults : RagStep(t, outcome)
        \/ \E env \in ToolEnvs : ToolStep(t, env)
        \/ \E chunk \in AllChunks : ResponseChunk(t, chunk)
        \/ \E fault \in BOOLEAN : ResponseStep(t, fault)
        \/ FinishStream(t)
        \/ EmitDone(t)
        \/ ChatReturn(t)
        \/ GraphFault(t)
        \/ ErrorDone(t)
        \/ Disconnect(t)
        \/ Retire(t)

Spec == Init /\ [][Next]_vars

\* One request, followed from its arrival to its end, with every
\* classifier result, retrieval outcome, tool environment, chunk and fault,
\* on either endpoint, and a consumer that may disconnect.
TurnNext ==
    \/ \E r \in Requests : StartStream(1, r)
    \/ \E r \in Requests : StartChat(1, r)
    \/ \E chunk \in AllChunks : RouterChunk(1, chunk)
    \/ \E result \in ClassifierResults : RouterStep(1, result)
    \/ \E outcome \in RetrievalResults : RagStep(1, outcome)
    \/ \E env \in ToolEnvs : ToolStep(1, env)
    \/ \E chunk \in AllChunks : ResponseChunk(1, chunk)
    \/ \E fault \in BOOLEAN : ResponseStep(1, fault)
    \/ FinishStream(1)
    \/ EmitDone(1)
    \/ ChatReturn(1)
    \/ GraphFault(1)
    \/ ErrorDone(1)
    \/ Disconnect(1)
    \/ Retire(1)

TurnSpec == Init /\ [][TurnNext]_vars

\* One request in which every exception is one a node catches (the
\* classifier, the retrieval, the tool operation or the generation call
\* raising) and the consumer reads the stream to its end.  The event loop
\* resumes a handler whenever the call it awaits has returned or raised.
LiveNext ==
    \/ \E r \in Requests : StartStream(1, r)
    \/ \E r \in Requests : StartChat(1, r)
    \/ \E chunk \in AllChunks : RouterChunk(1, chunk)
    \/ \E result \in ClassifierResults : RouterStep(1, result)
    \/ \E outcome \in RetrievalResults : RagStep(1, outcome)
    \/ \E env \in ToolEnvs : ToolStep(1, env)
    \/ \E chunk \in AllChunks : ResponseChunk(1, chunk)
    \/ \E fault \in BOOLEAN : ResponseStep(1, fault)
    \/ FinishStream(1)
    \/ EmitDone(1)
    \/ ChatReturn(1)
    \/ Retire(1)

LiveSpec == Init /\ [][LiveNext]_vars /\ WF_vars(LiveNext)

\* ------------------------------------ retrieval with the backend down
\* One request with intent=rag in which every backend call of
\* search_similar raises.
OutageNext ==
    \/ \E r \in Requests : StartStream(1, r)
    \/ \E r \in Requests : StartChat(1, r)
    \/ RouterStep(1, RouterOutput("rag", None, ArgsNone))
    \/ RagStep(1, Retrieved(search_similar(BackendFault)))
    \/ \E chunk \in AllChunks : ResponseChunk(1, chunk)
    \/ \E fault \in BOOLEAN : ResponseStep(1, fault)
    \/ FinishStream(1)
    \/ EmitDone(1)
    \/ ChatReturn(1)
    \/ Retire(1)

OutageSpec == Init /\ [][OutageNext]_vars

\* ------------------------------------ the router on noisy tool names
\* Tool names as a classifier may write them: a whitelisted name with
\* whitespace around it, enclosing quotes, whitespace inside the quotes, a
\* quote inside the name and a list or question after it.
LongPadLen == 45
LongPad == [i \in 1..LongPadLen |-> " "]
OuterPads == {<<>>, <<" ">>, <<"U+3000">>, LongPad}
InnerPads == {<<>>, <<" ">>}
OpenQuotes == {<<>>, <<"'">>, <<"\"", "LCB">>}
CloseQuotes == {<<>>, <<"'">>}
LIST_TAIL == <<",", " ">> \o RECOMMEND_SONG
LONG_TAIL ==
    <<",", " ">> \o SEND_FAN_LETTER \o <<",", " ">> \o RECOMMEND_SONG
        \o <<",", " ">> \o GET_WEATHER
Tails == {<<>>, LIST_TAIL, <<"?">>, <<"?", " ", "o", "r", ",", " ", "n", "o">>, LONG_TAIL}
\* The name with a quote character in its middle.
embed(name) == SubSeq(name, 1, 3) \o <<"BACKTICK">> \o SubSeq(name, 4, Len(name))
WrappedNames ==
    { [raw |-> lead \o open \o pad1 \o (IF embedded THEN embed(valid_tools[n])
                                          ELSE valid_tools[n])
                    \o pad2 \o close \o tail \o trail,
       name |-> valid_tools[n]] :
         lead \in OuterPads, open \in OpenQuotes, pad1 \in InnerPads,
         n \in 1..Len(valid_tools), embedded \in BOOLEAN, pad2 \in InnerPads,
         close \in CloseQuotes, tail \in Tails, trail \in InnerPads }
NoisyResults == { RouterOutput("tool", Some(w.raw), ArgsNone) : w \in WrappedNames }

\* A streaming request suspended at the classifier call of router_node.
NoisyInit ==
    \E r \in Requests :
        /\ SESSION_STORE = <<>>
        /\ pc = [t \in Turns |-> IF t = 1 THEN "router" ELSE "idle"]
        /\ mode = [t \in Turns |-> IF t = 1 THEN "stream" ELSE "none"]
        /\ req = [t \in Turns |-> IF t = 1 THEN r ELSE NoRequest]
        /\ state = [t \in Turns |->
                IF t = 1
                THEN initial_state(<<HumanMessage(r.message, 1)>>,
                                   effective_session(r.session_id), r.user_id)
                ELSE NoState]
        /\ gen = [t \in Turns |-> <<>>]
        /\ loc = [t \in Turns |-> InitLocals]
        /\ out = [t \in Turns |-> <<>>]
        /\ resp = [t \in Turns |-> None]
        /\ cls = [t \in Turns |-> None]
        /\ ran = [t \in Turns |-> <<>>]
        /\ prompt = [t \in Turns |-> None]

\* The classifier answers with one of the noisy names and the router runs.
NoisyNext == \E result \in NoisyResults : RouterStep(1, result)

NoisySpec == NoisyInit /\ [][NoisyNext]_vars

\* ------------------------------------ the tool stage on every tool call
\* Tool calls a classifier may ask for: every whitelisted name, a name
\* outside the whitelist and no name, each with every argument map.
ArgsSong == Some([mood |-> <<"sad">>])
ArgsLetter == Some([category |-> <<"cheer">>, message |-> <<"hi">>])
ToolCalls ==
    { RouterOutput("tool", name, args) :
        name \in { Some(valid_tools[n]) : n \in 1..Len(valid_tools) }
                    \cup { Some(BOGUS), None },
        args \in { ArgsNone, ArgsSchedule, ArgsSong, ArgsLetter } }

\* From a streaming request suspended at the classifier call: the router
\* answers with one of the tool calls and the tool stage runs.
ToolCallNext ==
    \/ \E result \in ToolCalls : RouterStep(1, result)
    \/ \E env \in ToolEnvs : ToolStep(1, env)

ToolCallSpec == NoisyInit /\ [][ToolCallNext]_vars

\* ------------------------------------------------------ one streaming turn
\* One request to chat_stream from its arrival to its last event, with
\* every classifier result, retrieval outcome, tool environment, chunk and
\* fault, and a consumer that may disconnect.
StreamNext ==
    \/ \E r \in Requests : StartStream(1, r)
    \/ \E chunk \in AllChunks : RouterChunk(1, chunk)
    \/ \E result \in ClassifierResults : RouterStep(1, result)
    \/ \E outcome \in RetrievalResults : RagStep(1, outcome)
    \/ \E env \in ToolEnvs : ToolStep(1, env)
    \/ \E chunk \in AllChunks : ResponseChunk(1, chunk)
    \/ \E fault \in BOOLEAN : ResponseStep(1, fault)
    \/ FinishStream(1)
    \/ EmitDone(1)
    \/ GraphFault(1)
    \/ ErrorDone(1)
    \/ Disconnect(1)
StreamSpec == Init /\ [][StreamNext]_vars

\* ------------------------------------------------ concurrent streaming turns
\* Streaming requests handled concurrently: each handler is a coroutine of
\* one event loop and is suspended at every await of graph.astream and at
\* every yield, where any other handler may run, a fault may be raised or
\* the consumer may disconnect.  Turns with intent=chat whose answer is
\* empty or one chunk.
ConcNext ==
    \E t \in Turns :
        \/ \E r \in Requests : StartStream(t, r)
        \/ RouterStep(t, RouterOutput("chat", None, ArgsNone))
        \/ ResponseChunk(t, <<Letters[1]>>)
        \/ ResponseStep(t, FALSE)
        \/ FinishStream(t)
        \/ EmitDone(t)
        \/ GraphFault(t)
        \/ ErrorDone(t)
        \/ Disconnect(t)
ConcSpec == Init /\ [][ConcNext]_vars

\* ------------------------------------------------ a turn on a long session
\* The session s1 already holds the pairs of up to MaxPairs earlier
\* requests (numbered 0, -1, ... backwards), each with its own texts.
MaxPairs == 4
PriorTexts ==
    <<"h1", "h2", "h3", "h4", "h5", "h6", "h7", "h8", "h9", "h10", "h11", "h12",
      "h13", "h14">>
PriorMessage(i) ==
    IF i % 2 = 1
    THEN HumanMessage(<<PriorTexts[i]>>, 0 - ((i - 1) \div 2))
    ELSE AIMessage(<<PriorTexts[i]>>, 0 - ((i - 1) \div 2))
PriorHistory(pairs) == [i \in 1..(2 * pairs) |-> PriorMessage(i)]
HistoryStart(pairs) ==
    /\ SESSION_STORE = [s \in {"s1"} |-> PriorHistory(pairs)]
    /\ pc = [t \in Turns |-> "idle"]
    /\ mode = [t \in Turns |-> "none"]
    /\ req = [t \in Turns |-> NoRequest]
    /\ state = [t \in Turns |-> NoState]
    /\ gen = [t \in Turns |-> <<>>]
    /\ loc = [t \in Turns |-> InitLocals]
    /\ out = [t \in Turns |-> <<>>]
    /\ resp = [t \in Turns |-> None]
    /\ cls = [t \in Turns |-> None]
    /\ ran = [t \in Turns |-> <<>>]
    /\ prompt = [t \in Turns |-> None]
HistoryInit == \E pairs \in 0..MaxPairs : HistoryStart(pairs)
HistoryNext ==
    \/ \E r \in Requests : StartStream(1, r)
    \/ \E r \in Requests : StartChat(1, r)
    \/ \E result \in ClassifierResults : RouterStep(1, result)
    \/ \E outcome \in RetrievalResults : RagStep(1, outcome)
    \/ \E env \in ToolEnvs : ToolStep(1, env)
    \/ \E fault \in BOOLEAN : ResponseStep(1, fault)
HistorySpec == HistoryInit /\ [][HistoryNext]_vars

\* ------------------------------------------ requests on a session with a past
\* Streaming chat requests on the sessions s1, which already holds the
\* pair of an earlier request, and s2, which is new.  A request may arrive at any time, while
\* others are suspended at an await or a yield; each may fault, lose its
\* consumer, or answer with nothing or one chunk.  The handlers' records
\* are kept.
SessionInit == HistoryStart(1)
SessionNext ==
    \E t \in Turns :
        \/ \E r \in Requests : StartStream(t, r)
        \/ RouterStep(t, RouterOutput("chat", None, ArgsNone))
        \/ ResponseChunk(t, <<Letters[1]>>)
        \/ \E fault \in BOOLEAN : ResponseStep(t, fault)
        \/ FinishStream(t)
        \/ EmitDone(t)
        \/ GraphFault(t)
        \/ ErrorDone(t)
        \/ Disconnect(t)
SessionSpec == SessionInit /\ [][SessionNext]_vars

\* ======================================================== properties
Streaming(t) == mode[t] = "stream"
\* Positions of the events of one type in a sequence of SSE events.
PositionsIn(events, type) == { i \in 1..Len(events) : events[i].type = type }
Positions(t, type) == PositionsIn(out[t], type)
\* The contents of the token events among the first n events, in order.
TokenContents(events, n) ==
    LET tokens == SelectSeq(SubSeq(events, 1, n), LAMBDA e : e.type = "token")
    IN  [i \in 1..Len(tokens) |-> tokens[i].content]
NonEmptyChunks(chunks) == SelectSeq(chunks, LAMBDA c : c # <<>>)
\* The chunks the response generation of the turn has streamed so far.
ResponseChunks(t) ==
    ChunkContents(SelectSeq(gen[t], LAMBDA c : c.node = "response"))
IsPrefix(s, r) == Len(s) <= Len(r) /\ SubSeq(r, 1, Len(s)) = s
\* The messages the request found in its session entry when it started.
History(t) == SelectSeq(state[t].messages, LAMBDA m : m.turn # t)
\* Some message constructed by request t is in the store.
StoredBy(t) ==
    \E s \in DOMAIN SESSION_STORE :
        \E i \in 1..Len(SESSION_STORE[s]) : SESSION_STORE[s][i].turn = t
HasToken(t) == Positions(t, "token") # {}

\* C1: in a streaming turn the thinking event of the response stage
\* precedes every token event.
C1_StatusBeforeTokens ==
    \A t \in Turns :
        \A i \in Positions(t, "token") :
            \E j \in 1..(i - 1) :
                /\ out[t][j].type = "thinking"
                /\ out[t][j].content = node_status("response")

\* C2: a streaming turn read to its end holds exactly one done event, the
\* last event of the stream, on the normal path and on the error path; no
\* event ever follows a done event.
C2_DoneOnceAndLast ==
    \A t \in Turns :
        /\ \A i \in Positions(t, "done") : i = Len(out[t])
        /\ (Streaming(t) /\ pc[t] \in {"done", "failed"}) =>
              /\ Cardinality(Positions(t, "done")) = 1
              /\ out[t][Len(out[t])].type = "done"
C2_Witness ==
    \E t \in Turns :
        /\ Streaming(t) /\ pc[t] = "failed" /\ HasToken(t)
        /\ out[t][Len(out[t])].type = "done"

\* C3: a streaming turn that ends without a fault holds exactly one
\* response event, after every token event and immediately before done,
\* also when no token was streamed.
C3_OneResponseBeforeDone ==
    \A t \in Turns :
        (Streaming(t) /\ pc[t] = "done") =>
            /\ Cardinality(Positions(t, "response")) = 1
            /\ Len(out[t]) >= 2
            /\ out[t][Len(out[t]) - 1].type = "response"
            /\ \A i \in Positions(t, "token") : i < Len(out[t]) - 1

\* C4: a fault raised while the graph stream is consumed gives exactly one
\* error event and no response event; the error event is the last event
\* until the consumer reads on, and is then immediately followed by done.
C4_FaultIsErrorThenDone ==
    \A t \in Turns :
        /\ (Streaming(t) /\ pc[t] = "erred") =>
              /\ Cardinality(Positions(t, "error")) = 1
              /\ out[t][Len(out[t])].type = "error"
              /\ Positions(t, "response") = {}
        /\ (Streaming(t) /\ pc[t] = "failed") =>
              /\ Cardinality(Positions(t, "error")) = 1
              /\ Len(out[t]) >= 2
              /\ out[t][Len(out[t]) - 1].type = "error"
              /\ out[t][Len(out[t])].type = "done"
              /\ Positions(t, "response") = {}
C4_Witness ==
    \E t \in Turns :
        /\ Streaming(t) /\ pc[t] = "failed"
        /\ Cardinality(Positions(t, "token")) >= 2
        /\ Positions(t, "error") # {}

\* C5: the response event's tool_used is the tool the tool stage executed,
\* and is absent when no tool was executed.
C5_ToolUsedIsExecutedTool ==
    \A t \in Turns :
        \A i \in Positions(t, "response") :
            IF IsNone(state[t].tool_result)
            THEN "tool_used" \notin DOMAIN out[t][i]
            ELSE /\ "tool_used" \in DOMAIN out[t][i]
                 /\ Some(out[t][i].tool_used) = state[t].tool_name

\* C6: the response event's content is the concatenation, in emission
\* order, of the contents of the token events before it, and the token
\* events carry the non-empty chunks in the order they were generated.
C6_FinalIsConcatOfTokens ==
    \A t \in Turns :
        Streaming(t) =>
            /\ TokenContents(out[t], Len(out[t])) =
                  NonEmptyChunks(ResponseChunks(t))
            /\ \A i \in Positions(t, "response") :
                  out[t][i].content = Concat(TokenContents(out[t], i))
C6_Witness ==
    \E t \in Turns :
        /\ Cardinality(Positions(t, "token")) >= 2
        /\ \E i \in Positions(t, "response") : Len(out[t][i].content) >= 2

\* C7: the step that yields the response event of a streaming turn grows
\* the entry of the turn's session by exactly the turn's user message
\* followed by the assistant message holding the final text; the earlier
\* messages keep their place.
YieldsResponse(t) ==
    Cardinality(PositionsIn(out'[t], "response")) >
        Cardinality(PositionsIn(out[t], "response"))
C7_FinalAppendsPair ==
    [][\A t \in Turns :
          YieldsResponse(t) =>
              LET final == out'[t][Len(out'[t])]
                  session_id == state[t].session_id
              IN  /\ final.type = "response"
                  /\ Truthy(final.content)
                  /\ Entry(SESSION_STORE', session_id) =
                        Entry(SESSION_STORE, session_id) \o
                        << HumanMessage(req[t].message, t),
                           AIMessage(final.content, t) >>]_vars
C7_Witness ==
    \E t \in Turns :
        /\ Positions(t, "response") # {}
        /\ Len(Entry(SESSION_STORE, state[t].session_id)) >= 4
        /\ Len(History(t)) >= 2

\* C8 as claimed: a streaming turn that ends by a fault, by a
\* disconnection before the stream is exhausted, or with empty final text
\* leaves SESSION_STORE as it was when the turn started.
LeavesStoreAlone(t) ==
    /\ ~StoredBy(t)
    /\ IsPrefix(History(t), Entry(SESSION_STORE, state[t].session_id))
C8_FailedTurnLeavesStore ==
    \A t \in Turns :
        (/\ Streaming(t)
         /\ \/ pc[t] \in {"failed", "cancelled"}
            \/ pc[t] = "done" /\ ~Truthy(loc[t].final_response))
        => LeavesStoreAlone(t)
\* C8 amended: the same, for a disconnection before the response event is
\* yielded; and every user message in the store is directly followed by
\* the assistant message of its turn.
PairsOnly ==
    \A s \in DOMAIN SESSION_STORE :
        \A i \in 1..Len(SESSION_STORE[s]) :
            SESSION_STORE[s][i].role = "human" =>
                /\ i < Len(SESSION_STORE[s])
                /\ SESSION_STORE[s][i + 1].role = "ai"
                /\ SESSION_STORE[s][i + 1].turn = SESSION_STORE[s][i].turn
C8_AbortedTurnLeavesStore ==
    /\ PairsOnly
    /\ \A t \in Turns :
        (/\ Streaming(t)
         /\ \/ pc[t] = "failed"
            \/ pc[t] = "cancelled" /\ Positions(t, "response") = {}
            \/ pc[t] = "done" /\ ~Truthy(loc[t].final_response))
        => LeavesStoreAlone(t)
C8_Witness ==
    \E t \in Turns :
        /\ Streaming(t) /\ pc[t] = "cancelled"
        /\ Truthy(loc[t].final_response)
        /\ Positions(t, "response") = {}
        /\ Len(History(t)) >= 2

\* C9: after chat() returns a response, the session's history holds the
\* turn's user message and the assistant answer.
C9_ChatPersistsTurn ==
    \A t \in Turns :
        (mode[t] = "invoke" /\ pc[t] = "done" /\ resp[t] # None
            /\ Val(resp[t]).status = 200) =>
            LET entry == Entry(SESSION_STORE, req[t].session_id)
            IN  \E i \in 1..(Len(entry) - 1) :
                    /\ entry[i] = HumanMessage(req[t].message, t)
                    /\ entry[i + 1] = AIMessage(Val(resp[t]).message, t)

\* C10: once the router has written the state, intent=tool implies a
\* whitelisted tool_name, and any other intent implies that tool_name and
\* tool_args are null.
C10_RouterStateInvariant ==
    \A t \in Turns :
        ~IsNone(state[t].intent) =>
            IF state[t].intent = Some("tool")
            THEN /\ ~IsNone(state[t].tool_name)
                 /\ InValidTools(Val(state[t].tool_name))
            ELSE /\ IsNone(state[t].tool_name)
                 /\ IsNone(state[t].tool_args)

\* The classifier's RouterOutput of request t, once the router has run and
\* the call returned one.
Classified(t) == ~IsNone(cls[t]) /\ ~Val(cls[t]).fault
\* No whitelisted name survives the sanitization of a RouterOutput.
NoToolSurvives(result) ==
    LET name == sanitize_tool_name(result.tool_name)
    IN  IsNone(name) \/ ~InValidTools(Val(name))

\* C11: the tool_name the router writes into the state is the sanitized
\* name, never the raw classifier string (for " 'get_schedule',
\* recommend_song " with intent=tool the state holds "get_schedule").
C11_StateHoldsSanitizedName ==
    \A t \in Turns :
        Classified(t) =>
            state[t].tool_name = sanitize_tool_name(Val(cls[t]).tool_name)

\* C12: when the classifier says intent=tool and no whitelisted name
\* survives sanitization, the state holds intent=chat with null tool_name
\* and tool_args, and the turn never enters the tool stage.
C12_DowngradeToChat ==
    \A t \in Turns :
        (Classified(t) /\ Val(cls[t]).intent = "tool"
            /\ NoToolSurvives(Val(cls[t]))) =>
            /\ state[t].intent = Some("chat")
            /\ IsNone(state[t].tool_name)
            /\ IsNone(state[t].tool_args)
            /\ pc[t] # "tool"
            /\ \A i \in 1..Len(ran[t]) : ran[t][i].node # "tool"

\* The raw tool_name of the classifier's RouterOutput of request t.
RawName(t) == Val(cls[t]).tool_name
HasRawName(t) == Classified(t) /\ ~IsNone(RawName(t))
\* The local tool_name of router_node after the cleaning steps.
Sanitized(t) == sanitize_tool_name(RawName(t))
\* The wrapped names that spell the raw tool_name of request t.
WrappedAs(t) == { w \in WrappedNames : Some(w.raw) = RawName(t) }

\* C13: every raw string of at most 50 characters that wraps
\* one whitelisted name in whitespace, quotes and a comma or question-mark
\* tail is sanitized to exactly that name.
C13_WrappedNameRecovered ==
    \A t \in Turns :
        HasRawName(t) =>
            \A w \in WrappedAs(t) :
                Len(w.raw) <= MaxToolNameLen => Sanitized(t) = Some(w.name)

\* C14: a raw tool name longer than 50 characters is discarded whatever it
\* contains: the length test reads the raw string, before any trimming or
\* cut.
C14_LongNameDiscarded ==
    \A t \in Turns :
        (HasRawName(t) /\ Len(Val(RawName(t))) > MaxToolNameLen) =>
            /\ IsNone(Sanitized(t))
            /\ IsNone(router_locals(Val(cls[t])).tool_name)
C14_Witness ==
    \E t \in Turns :
        /\ HasRawName(t)
        /\ ran[t] # <<>>
        /\ Len(Val(RawName(t))) > MaxToolNameLen
        /\ InValidTools(strip(Val(RawName(t)), WHITESPACE))
        /\ IsNone(Sanitized(t))

\* The text of s before its first comma or question mark.
RECURSIVE BeforeCut(_)
BeforeCut(s) ==
    IF s = <<>> \/ Head(s) \in {",", "?"} THEN <<>>
    ELSE <<Head(s)>> \o BeforeCut(Tail(s))
\* s is a whitelisted name followed by a comma or a question mark.
NameThenCut(s) == BeforeCut(s) # s /\ InValidTools(BeforeCut(s))

\* C15 (as stated): the comma and question-mark cuts come before the length
\* test, so a raw string that starts with a whitelisted name followed by a
\* comma or question mark is recovered as that name whatever its length.
C15_CutBeforeLengthTest ==
    \A t \in Turns :
        (HasRawName(t) /\ NameThenCut(Val(RawName(t)))) =>
            Sanitized(t) = Some(BeforeCut(Val(RawName(t))))

\* C15 (amended): the cuts come after the length test and before the
\* whitelist test: a raw string that starts with a whitelisted name followed
\* by a comma or question mark is recovered as that name when it has at
\* most 50 characters and is discarded when it has more.
C15_CutAfterLengthTest ==
    \A t \in Turns :
        (HasRawName(t) /\ NameThenCut(Val(RawName(t)))) =>
            IF Len(Val(RawName(t))) <= MaxToolNameLen
            THEN /\ Sanitized(t) = Some(BeforeCut(Val(RawName(t))))
                 /\ router_locals(Val(cls[t])).result_intent = "tool"
            ELSE /\ IsNone(Sanitized(t))
                 /\ router_locals(Val(cls[t])).result_intent = "chat"
C15_Witness ==
    \E t \in Turns :
        /\ HasRawName(t)
        /\ ran[t] # <<>>
        /\ NameThenCut(Val(RawName(t)))
        /\ Len(Val(RawName(t))) > MaxToolNameLen
        /\ IsNone(Sanitized(t))

\* The nodes of request t that completed (or completed among the first n).
NodesRun(t) == [i \in 1..Len(ran[t]) |-> ran[t][i].node]
TimesRun(t, node) == Cardinality({ i \in 1..Len(ran[t]) : ran[t][i].node = node })
Raised(t, node) ==
    \E i \in 1..Len(ran[t]) : ran[t][i].node = node /\ ran[t][i].raised
\* The classifier call of request t raised (or gave nothing readable).
ClassifierRaised(t) == ~IsNone(cls[t]) /\ Val(cls[t]).fault

\* C16: when the classifier call raises, router_node completes with
\* intent=chat and null tool_name and tool_args, and the turn goes on to
\* the response stage and completes.
C16_ClassifierFaultGivesChat ==
    /\ [](\A t \in Turns :
            ClassifierRaised(t) =>
                /\ NodesRun(t)[1] = "router"
                /\ state[t].intent = Some("chat")
                /\ IsNone(state[t].tool_name)
                /\ IsNone(state[t].tool_args)
                /\ pc[t] \notin {"router", "rag", "tool"}
                /\ TimesRun(t, "rag") = 0 /\ TimesRun(t, "tool") = 0)
    /\ \A t \in Turns : ClassifierRaised(t) ~> (pc[t] = "done")
C16_Witness ==
    \E t \in Turns :
        /\ ClassifierRaised(t)
        /\ pc[t] = "done"
        /\ NodesRun(t) = <<"router", "response">>
        /\ state[t].intent = Some("chat")

\* The path through the graph that the intent in the state selects.
PathOf(intent) ==
    IF intent = Some("rag") THEN <<"router", "rag", "response">>
    ELSE IF intent = Some("tool") THEN <<"router", "tool", "response">>
    ELSE <<"router", "response">>

\* C17: after the router the next stage follows from the intent in the
\* state alone (rag -> rag, tool -> tool, otherwise response); rag and tool
\* are followed only by response, and response only by the end of the turn.
C17_PathFollowsIntent ==
    \A t \in Turns :
        LET path == PathOf(state[t].intent)
        IN  /\ ran[t] # <<>> => IsPrefix(NodesRun(t), path)
            /\ (InGraph(t) /\ ran[t] # <<>>) =>
                  /\ Len(ran[t]) < Len(path)
                  /\ pc[t] = path[Len(ran[t]) + 1]
            /\ (InGraph(t) /\ ran[t] = <<>>) => pc[t] = "router"
            /\ pc[t] \in {"finish", "final", "return", "done"} =>
                  NodesRun(t) = path
C17_Witness ==
    \E t \in Turns :
        /\ pc[t] = "response"
        /\ state[t].intent = Some("tool")
        /\ NodesRun(t) = <<"router", "tool">>

\* C18: whatever the classifier, the retrieval, the tool operation and the
\* generation call do (return or raise), every turn reaches done, having
\* run the router once, the response stage once and at most one of rag and
\* tool in between.
C18_EveryTurnCompletes ==
    /\ \A t \in Turns : (pc[t] = "router") ~> (pc[t] = "done")
    /\ [](\A t \in Turns :
            pc[t] = "done" =>
                /\ TimesRun(t, "router") = 1
                /\ TimesRun(t, "response") = 1
                /\ TimesRun(t, "rag") + TimesRun(t, "tool") <= 1
                /\ NodesRun(t)[1] = "router"
                /\ NodesRun(t)[Len(ran[t])] = "response")
C18_Witness ==
    \E t \in Turns :
        /\ pc[t] = "done"
        /\ Raised(t, "tool") /\ Raised(t, "response")
        /\ Len(ran[t]) = 3

\* The graph run of request t has reached END.
GraphEnded(t) == pc[t] \in {"finish", "final", "return", "done"}

\* C19: retrieved_docs is non-empty only if intent=rag, tool_result is
\* non-null only if intent=tool, never both; when a turn with intent=rag
\* ends retrieved_docs is non-empty, and when a turn with intent=tool ends
\* tool_result is non-null.
C19_ContextMatchesIntent ==
    \A t \in Turns :
        /\ state[t].retrieved_docs # <<>> => state[t].intent = Some("rag")
        /\ ~IsNone(state[t].tool_result) => state[t].intent = Some("tool")
        /\ ~(state[t].retrieved_docs # <<>> /\ ~IsNone(state[t].tool_result))
        /\ (GraphEnded(t) /\ state[t].intent = Some("rag")) =>
              state[t].retrieved_docs # <<>>
        /\ (GraphEnded(t) /\ state[t].intent = Some("tool")) =>
              ~IsNone(state[t].tool_result)

\* C20: when the retrieval call raises in a turn with intent=rag, rag_node
\* completes with the two fallback passages as retrieved_docs, the turn
\* goes on to the response stage, and the system prompt response_node
\* builds holds those passages as its context.
C20_RetrievalFaultUsesFallback ==
    \A t \in Turns :
        Raised(t, "rag") =>
            /\ state[t].intent = Some("rag")
            /\ state[t].retrieved_docs = FALLBACK_DOCS
            /\ IsPrefix(<<"router", "rag">>, NodesRun(t))
            /\ pc[t] \notin {"router", "rag", "tool"}
            /\ TimesRun(t, "response") = 1 => ~IsNone(prompt[t])
            /\ ~IsNone(prompt[t]) =>
                  Val(prompt[t]).system_prompt =
                      [template |-> "RAG_RESPONCE_PROMPT",
                       context |-> FALLBACK_DOCS[1] \o <<"\n">> \o FALLBACK_DOCS[2]]
C20_Witness ==
    \E t \in Turns :
        /\ Raised(t, "rag")
        /\ pc[t] = "done"
        /\ ~IsNone(prompt[t])
        /\ Val(prompt[t]).system_prompt.context =
              FALLBACK_DOCS[1] \o <<"\n">> \o FALLBACK_DOCS[2]

\* C21: when the backend of search_similar faults (so that it returns an
\* empty list), retrieved_docs holds the fallback passages, not an empty
\* sequence, when the response stage runs.
C21_BackendFaultUsesFallback ==
    \A t \in Turns :
        (TimesRun(t, "rag") = 1 /\ ~Raised(t, "rag")) =>
            /\ state[t].retrieved_docs = FALLBACK_DOCS
            /\ ~IsNone(prompt[t]) =>
                  Val(prompt[t]).system_prompt.context =
                      FALLBACK_DOCS[1] \o <<"\n">> \o FALLBACK_DOCS[2]

\* The tool name in the state of request t is one of the whitelist.
Whitelisted(t) ==
    ~IsNone(state[t].tool_name) /\ InValidTools(Val(state[t].tool_name))
ToolRan(t) == TimesRun(t, "tool") = 1

\* C22: execute never raises: for every tool name, argument map and fault
\* of the operation it returns a result with a success field, and a fault
\* or an unrecognized name gives success=false with an error description.
C22_ExecuteAlwaysReturnsResult ==
    \A t \in Turns :
        ToolRan(t) =>
            /\ ~IsNone(state[t].tool_result)
            /\ LET result == Val(state[t].tool_result)
               IN  /\ "success" \in DOMAIN result
                   /\ result.success \in BOOLEAN
                   /\ (Raised(t, "tool") \/ ~Whitelisted(t)) =>
                         /\ result.success = FALSE
                         /\ "error" \in DOMAIN result
                         /\ Truthy(result.error)
C22_Witness ==
    \E t \in Turns :
        /\ ToolRan(t)
        /\ ~Whitelisted(t)
        /\ ~IsNone(state[t].tool_args)
        /\ Val(state[t].tool_result).success = FALSE

\* The collaborator behind the tool of request t raised (only the schedule
\* lookup reaches one).
CollaboratorFaulted(t) ==
    state[t].tool_name = Some(GET_SCHEDULE) /\ Raised(t, "tool")
ArgsOf(t) == IF IsNone(state[t].tool_args) THEN <<>> ELSE Val(state[t].tool_args)

\* C23: for each whitelisted name execute runs that name's operation, and
\* when the operation's collaborator does not fault the result has
\* success=true; execute("send_fan_letter") gives the result of storing
\* the letter, holding its id.
C23_WhitelistedToolSucceeds ==
    \A t \in Turns :
        (ToolRan(t) /\ Whitelisted(t) /\ ~CollaboratorFaulted(t)) =>
            LET result == Val(state[t].tool_result)
            IN  /\ result.success = TRUE
                /\ state[t].tool_name = Some(GET_WEATHER) =>
                      result.data = MOCK_WEATHER
                /\ state[t].tool_name = Some(RECOMMEND_SONG) =>
                      \E n \in 1..Len(LUMI_SONGS) : result.data.song = LUMI_SONGS[n]
                /\ state[t].tool_name = Some(GET_SCHEDULE) =>
                      "schedules" \in DOMAIN result.data
                /\ state[t].tool_name = Some(SEND_FAN_LETTER) =>
                      result = send_fan_letter(ArgsOf(t), state[t].session_id,
                                               state[t].user_id, LETTER_ID)

\* The text appears in the content of a token or response event of request t.
Contains(content, text) ==
    \E a \in 1..Len(content) :
        a + Len(text) - 1 <= Len(content) /\
        SubSeq(content, a, a + Len(text) - 1) = text
Delivered(t, text) ==
    \E i \in Positions(t, "token") \cup Positions(t, "response") :
        Contains(out[t][i].content, text)

\* C24: no streaming turn ends without user-visible text: when the
\* generation call of the response stage raises, the stream has delivered
\* the apology text with the fault description (in token or response
\* events) by the time of the done event, for every intent.
C24_FaultStillDeliversApology ==
    \A t \in Turns :
        (Streaming(t) /\ pc[t] = "done" /\ Raised(t, "response")) =>
            /\ Positions(t, "token") \cup Positions(t, "response") # {}
            /\ Delivered(t, Apology(FaultText))

\* C25: in non-streaming mode a fault of the generation call of the
\* response stage is reported by chat() as a request failure, not as a
\* successful response.
C25_FaultFailsRequest ==
    \A t \in Turns :
        (mode[t] = "invoke" /\ pc[t] = "done" /\ Raised(t, "response")) =>
            /\ ~IsNone(resp[t])
            /\ Val(resp[t]).status # 200

\* The chunks generated so far in request t by the calls of the other stages.
OtherChunks(t) ==
    ChunkContents(SelectSeq(gen[t], LAMBDA c : c.node # "response"))

\* C26: every token event of a streaming turn comes from generation of the
\* response stage: the token events are exactly the non-empty chunks of
\* the response stage, in order; chunks generated by the router stage are
\* never token events and never part of the final text.
C26_TokensOnlyFromResponse ==
    \A t \in Turns :
        Streaming(t) =>
            /\ TokenContents(out[t], Len(out[t])) = NonEmptyChunks(ResponseChunks(t))
            /\ loc[t].final_response = Concat(ResponseChunks(t))
            /\ \A i \in Positions(t, "response") :
                  out[t][i].content = Concat(ResponseChunks(t))
            /\ pc[t] = "router" => ~HasToken(t)
C26_Witness ==
    \E t \in Turns :
        /\ Streaming(t)
        /\ Len(NonEmptyChunks(OtherChunks(t))) = MaxChunks
        /\ pc[t] = "router"
        /\ ~HasToken(t)

\* The consumer of request t has disconnected.
Cancelled(t) == pc[t] = "cancelled"

\* C27: once the consumer of a streaming turn has disconnected the producer
\* stops: no further stage of the turn completes, no further event is
\* produced, no further chunk is generated, the store is not written, and
\* the turn never reaches its end in the background.
C27_DisconnectStopsProducer ==
    [][\A t \in Turns :
          Cancelled(t) =>
              /\ pc'[t] \in {"cancelled", "retired"}
              /\ SESSION_STORE' = SESSION_STORE
              /\ ~Cancelled(t)' =>
                    out'[t] = <<>> /\ ran'[t] = <<>> /\ gen'[t] = <<>>
              /\ Cancelled(t)' =>
                    /\ out'[t] = out[t]
                    /\ ran'[t] = ran[t]
                    /\ gen'[t] = gen[t]
                    /\ loc'[t] = loc[t]
                    /\ state'[t] = state[t]]_vars
C27_Witness ==
    \E t \in Turns :
        /\ Cancelled(t)
        /\ HasToken(t)
        /\ TimesRun(t, "response") = 0
        /\ Positions(t, "done") = {}

\* The requests started so far on session s, and those that have saved.
TurnsOn(s) == { t \in Turns : pc[t] # "idle" /\ state[t].session_id = s }
SavedOn(s) ==
    { t \in TurnsOn(s) :
        Positions(t, "response") # {} /\ Truthy(loc[t].final_response) }
\* The pair request t saves.
PairOf(t) ==
    << HumanMessage(req[t].message, t), AIMessage(loc[t].final_response, t) >>

\* C28: under any interleaving of concurrent turns, a turn on one session
\* never reads or changes the store entry of another session: the entry of
\* each session holds exactly the pairs saved by the turns on that session,
\* as if they had run alone, and the history a turn starts from holds only
\* messages of its own session.
C28_SessionsAreIndependent ==
    /\ \A s \in Sessions :
          LET entry == Entry(SESSION_STORE, s)
          IN  /\ Len(entry) = 2 * Cardinality(SavedOn(s))
              /\ \A t \in SavedOn(s) :
                    \E i \in 1..(Len(entry) - 1) :
                        <<entry[i], entry[i + 1]>> = PairOf(t)
    /\ \A t \in Turns :
          pc[t] # "idle" =>
              \A i \in 1..Len(History(t)) :
                  History(t)[i].turn \in TurnsOn(state[t].session_id)
C28_Witness ==
    \E t, u \in Turns :
        /\ state[t].session_id # state[u].session_id
        /\ pc[t] = "final" /\ pc[u] = "response"
        /\ t \in SavedOn(state[t].session_id)
        /\ HasToken(u)
        /\ Len(ran[u]) = 1 /\ Len(ran[t]) = 2
        /\ Positions(u, "thinking") # {}
        /\ out[u][1].type = "thinking"
        /\ Entry(SESSION_STORE, state[u].session_id) = <<>>

\* The positions of the thinking events of request t that show the label
\* of the node.
LabelPositions(t, node) ==
    { i \in Positions(t, "thinking") : out[t][i].content = node_status(node) }

\* C29: within one streaming turn each stage label (router, rag, tool,
\* response) is emitted as a thinking event at most once, and only for a
\* stage the turn has run; every thinking event shows one of these labels.
C29_LabelOncePerStageRun ==
    \A t \in Turns :
        /\ \A node \in StatusNodes :
              /\ Cardinality(LabelPositions(t, node)) <= 1
              /\ LabelPositions(t, node) # {} => TimesRun(t, node) = 1
        /\ \A i \in Positions(t, "thinking") :
              \E node \in StatusNodes : i \in LabelPositions(t, node)
C29_Witness ==
    \E t \in Turns :
        /\ pc[t] = "done"
        /\ LabelPositions(t, "router") # {}
        /\ LabelPositions(t, "rag") # {}
        /\ LabelPositions(t, "response") # {}
        /\ LabelPositions(t, "tool") = {}

\* Some thinking event with the label of the node precedes event i of
\* request t.
LabelBefore(t, node, i) == \E j \in LabelPositions(t, node) : j < i

\* C30: token events are emitted only in the response stage: every token
\* event is preceded by the router's thinking event and, when the intent
\* is rag or tool, by the thinking event of that branch; no rag or tool
\* thinking event follows a token event, and a turn that is still in the
\* router, rag or tool stage has no token event.
C30_TokensOnlyWhileComposing ==
    \A t \in Turns :
        /\ \A i \in Positions(t, "token") :
              /\ LabelBefore(t, "router", i)
              /\ state[t].intent = Some("rag") => LabelBefore(t, "rag", i)
              /\ state[t].intent = Some("tool") => LabelBefore(t, "tool", i)
              /\ \A j \in LabelPositions(t, "rag") \cup LabelPositions(t, "tool") :
                    j < i
        /\ pc[t] \in {"router", "rag", "tool"} => ~HasToken(t)
C30_Witness ==
    \E t \in Turns :
        /\ state[t].intent = Some("tool")
        /\ Cardinality(Positions(t, "token")) = MaxChunks
        /\ LabelPositions(t, "tool") # {}
        /\ pc[t] = "response"

Min(a, b) == IF a < b THEN a ELSE b
\* state["messages"] of request t when response_node read it (the message
\* response_node returned is appended to it afterwards).
MessagesRead(t) ==
    IF TimesRun(t, "response") = 1
    THEN SubSeq(state[t].messages, 1, Len(state[t].messages) - 1)
    ELSE state[t].messages

\* C31: for a turn state with n messages the history block response_node
\* builds is exactly the min(6, n-1) messages just before the last one,
\* oldest first, and never holds the last (current user) message; with
\* n = 1 it is empty.
C31_HistoryIsLastSixBefore ==
    \A t \in Turns :
        ~IsNone(prompt[t]) =>
            LET messages == MessagesRead(t)
                n == Len(messages)
                h == Min(6, n - 1)
                history == Val(prompt[t]).history
            IN  /\ Len(history) = h
                /\ \A i \in 1..h :
                      /\ history[i].role = messages[n - 1 - h + i].role
                      /\ history[i].content = messages[n - 1 - h + i].content
                /\ \A i \in 1..h : history[i].content # messages[n].content
C31_Witness ==
    \E t \in Turns :
        /\ ~IsNone(prompt[t])
        /\ Len(MessagesRead(t)) > 7
        /\ Len(Val(prompt[t]).history) = 6
        /\ Val(prompt[t]).history[1].content = MessagesRead(t)[Len(MessagesRead(t)) - 6].content

\* The fields of the state of request t that only the router may set.
RouterFields(st) ==
    <<st.intent, st.tool_name, st.tool_args, st.session_id, st.user_id>>
RouterDone(t) == TimesRun(t, "router") = 1

\* C32: intent is null until the router stage completes, is set by the
\* router stage only and never changes afterwards: the rag, tool and
\* response stages leave intent, tool_name, tool_args, session_id and
\* user_id as they are.
C32_OnlyRouterSetsIntent ==
    [][\A t \in Turns :
          /\ ~RouterDone(t) => state[t].intent = None
          /\ state'[t].intent # state[t].intent =>
                ~RouterDone(t) /\ RouterDone(t)'
          /\ RouterDone(t) => RouterFields(state'[t]) = RouterFields(state[t])]_vars
C32_Witness ==
    \E t \in Turns :
        /\ TimesRun(t, "tool") = 1
        /\ TimesRun(t, "response") = 1
        /\ state[t].intent = Some("tool")
        /\ ~IsNone(state[t].tool_args)
        /\ ~IsNone(state[t].tool_result)

\* Request j reached a non-empty final text: its response event was sent.
ReachedFinal(j) ==
    Positions(j, "response") # {} /\ Truthy(loc[j].final_response)
RECURSIVE PairsBefore(_, _)
\* The pairs of the requests before k on session s that reached a final
\* text, in the order of the requests.
PairsBefore(k, s) ==
    IF k <= 1 THEN <<>>
    ELSE PairsBefore(k - 1, s) \o
         (IF pc[k - 1] # "idle" /\ state[k - 1].session_id = s /\ ReachedFinal(k - 1)
          THEN PairOf(k - 1) ELSE <<>>)
\* What the session held before the first request.
PriorOf(s) == IF s = "s1" THEN PriorHistory(1) ELSE <<>>

\* The requests so far were handled one after another, in the order of
\* their numbers: none has started before every one with a smaller number
\* was over.
OneAfterAnother ==
    \A t \in Turns :
        pc[t] # "idle" => \A j \in 1..(t - 1) : Ended(j)
\* The messages given to the pipeline of each started request are what its
\* session held before, the pairs of the requests before it that reached
\* a final text, and its own user message.
StartsFromSavedPairs ==
    \A k \in Turns :
        pc[k] # "idle" =>
            LET s == state[k].session_id
                given == SelectSeq(state[k].messages, LAMBDA m : m.role = "human" \/ m.turn # k)
            IN  given = PriorOf(s) \o PairsBefore(k, s)
                                   \o << HumanMessage(req[k].message, k) >>

\* C33: for streaming turns handled one after another, the messages given
\* to the pipeline of turn k are what its session held before, then the
\* pairs saved by the earlier turns of that session that reached a
\* non-empty final text, in turn order, then the user message of turn k;
\* turns that failed or produced no text contribute nothing.
C33_TurnStartsFromSavedPairs == []OneAfterAnother => []StartsFromSavedPairs
C33_Witness ==
    \E j, k \in Turns :
        /\ OneAfterAnother
        /\ j < k
        /\ pc[k] = "response"
        /\ state[j].session_id = state[k].session_id
        /\ ReachedFinal(j)
        /\ Len(History(k)) > 2
        /\ History(k)[Len(History(k))] = PairOf(j)[2]

\* The messages request u started from hold nothing of request t.
Unseen(t, u) ==
    \A i \in 1..Len(state[u].messages) : state[u].messages[i].turn # t
\* Requests t and u were in flight on one session at the same time: each
\* started before the other saved.
Overlapped(t, u) ==
    /\ t # u
    /\ pc[t] # "idle" /\ pc[u] # "idle"
    /\ state[t].session_id = state[u].session_id
    /\ Unseen(t, u) /\ Unseen(u, t)

\* C34: under any interleaving of concurrent streaming turns, several on
\* one session included, every entry of SESSION_STORE has even length and
\* alternates user message, assistant message, starting with a user
\* message; the two messages of one turn are adjacent.
C34_EntriesAlternate ==
    \A s \in DOMAIN SESSION_STORE :
        LET entry == SESSION_STORE[s]
        IN  /\ Len(entry) % 2 = 0
            /\ \A i \in 1..Len(entry) :
                  IF i % 2 = 1
                  THEN /\ entry[i].role = "human"
                       /\ entry[i + 1].role = "ai"
                       /\ entry[i + 1].turn = entry[i].turn
                  ELSE entry[i].role = "ai"
C34_Witness ==
    \E t, u \in Turns :
        /\ Overlapped(t, u)
        /\ ReachedFinal(t)
        /\ pc[u] = "response"
        /\ HasToken(u)
        /\ Len(Entry(SESSION_STORE, state[u].session_id)) = 2

\* The pair of request t is in the sequence, its two messages adjacent.
HoldsPair(entry, t) ==
    \E i \in 1..(Len(entry) - 1) : <<entry[i], entry[i + 1]>> = PairOf(t)

\* C35: when two streaming turns on one session overlap and both reach a
\* non-empty final text, neither pair is lost or overwritten: each save
\* appends the finishing turn's pair to what the entry holds at that
\* moment, so the entry ends with both pairs in the order the turns
\* finished.
C35_OverlappingTurnsBothSaved ==
    [][/\ \A s \in Sessions :
             LET entry == Entry(SESSION_STORE, s)
                 after == Entry(SESSION_STORE', s)
             IN  \/ after = entry
                 \/ \E t \in Turns :
                       /\ YieldsResponse(t)
                       /\ state[t].session_id = s
                       /\ after = entry \o << HumanMessage(req[t].message, t),
                                              AIMessage(loc[t].final_response, t) >>
       /\ \A t, u \in Turns :
             (Overlapped(t, u) /\ ReachedFinal(t) /\ ReachedFinal(u))' =>
                 /\ HoldsPair(Entry(SESSION_STORE, state[t].session_id), t)'
                 /\ HoldsPair(Entry(SESSION_STORE, state[t].session_id), u)'
                 /\ Len(Entry(SESSION_STORE', state[t].session_id)) >= 4]_vars
C35_Witness ==
    \E t, u \in Turns :
        /\ Overlapped(t, u)
        /\ ReachedFinal(t) /\ ReachedFinal(u)
        /\ LET entry == Entry(SESSION_STORE, state[t].session_id)
           IN  /\ Len(entry) = 4
               /\ <<entry[1], entry[2]>> = PairOf(t)
               /\ <<entry[3], entry[4]>> = PairOf(u)

\* C36: the session append happens before the response event is handed to
\* the consumer: in every state in which the stream of a turn holds a
\* response event with non-empty content, SESSION_STORE holds the turn's
\* user message followed by the assistant message with that content.
C36_SavedBeforeResponseEvent ==
    \A t \in Turns :
        \A i \in Positions(t, "response") :
            Truthy(out[t][i].content) =>
                LET entry == Entry(SESSION_STORE, state[t].session_id)
                IN  \E j \in 1..(Len(entry) - 1) :
                        /\ entry[j] = HumanMessage(req[t].message, t)
                        /\ entry[j + 1] = AIMessage(out[t][i].content, t)
C36_Witness ==
    \E t \in Turns :
        /\ pc[t] = "final"
        /\ Positions(t, "response") # {}
        /\ Positions(t, "done") = {}
        /\ Len(Entry(SESSION_STORE, state[t].session_id)) > 2

\* C37: in non-streaming mode the response's tool_used is non-null only
\* if the tool stage ran in that turn, and then it is the name of the
\* tool that was executed.
C37_ToolUsedOnlyAfterToolStage ==
    \A t \in Turns :
        (/\ mode[t] = "invoke"
         /\ ~IsNone(resp[t])
         /\ Val(resp[t]).status = 200
         /\ ~IsNone(Val(resp[t]).tool_used)) =>
            /\ TimesRun(t, "tool") = 1
            /\ Val(resp[t]).tool_used = state[t].tool_name

====
